---- MODULE Spec2Model ----
(***************************************************************************)
(* AnyToolCall proxy (src/index.js): the tool-call text protocol           *)
(* (ToolCallDelimiter), the SSE event parser (SseEventParser), the         *)
(* streaming transcoder (createTransparentToolStreamTransformer) and the   *)
(* non-stream branch of handleRequest.                                     *)
(*                                                                         *)
(* Text is a sequence of characters; a character is a one-element name.    *)
(* The rare Unicode characters of the delimiter pools are written with     *)
(* ASCII names: "o1".."o6" the open characters, "c2" the one close         *)
(* character that differs from its open character, "m1".."m6" the mid      *)
(* characters, "x1".."x20" the suffix pool, ">" "<" the call brackets,     *)
(* "n>" "<n" the name brackets, "a>" "<a" the argument brackets and        *)
(* "r>" "<r" the result brackets.  " " is whitespace, "1" a digit (the     *)
(* only JSON text of the alphabet is a string of digits), "a" "k" "n"      *)
(* letters.                                                                *)
(***************************************************************************)
EXTENDS Integers, Sequences, FiniteSets, TLC

VARIABLES
    markers,        \* delimiter.markers, generated once per process
    clock,          \* Date.now(), non-decreasing
    \* ---- the upstream of one streaming request
    text,           \* the content text the upstream model produces
    pos,            \* how much of text the upstream has put into frames
    nframes,        \* frames sent so far (content and auxiliary)
    naux,           \* auxiliary frames sent so far
    sentDone,       \* the upstream has sent the [DONE] sentinel
    wire,           \* wire units sent by the upstream and not yet read
    upClosed,       \* the upstream has closed the connection
    \* ---- the transformer of that request
    buffer,         \* SseEventParser.buffer
    pendingText,    \* tail text possibly containing a partial marker
    bufferingTool,  \* the start marker has been seen
    toolBuffer,     \* buffered content from the marker on
    lastEnvelope,   \* last upstream JSON event, or NoEnvelope
    out,            \* what the transformer pushed to the client, in order
    lastEvents,     \* the raw events the last transform() call completed
    phase,          \* "open", "ended" (flush has run) or "failed" (it threw)
    resEnded,       \* res.end() has been called
    \* ---- the client of that request
    accepted,       \* how many of the written events the client has accepted
    clientGone,     \* the client has disconnected
    \* ---- the request side of handleRequest
    request,        \* the chat-completion request body received, or NoResult
    outgoing,       \* the body sent to the upstream, or NoResult
    \* ---- the text protocol parser and the non-stream branch
    pPieces,        \* the pieces the response text is made of
    pIn,            \* the response text
    pRes,           \* parse(pIn), or NoResult
    pRes2,          \* parse of the residual of pRes, or NoResult
    body,           \* the upstream response body of a non-stream request
    hasTools,       \* requestHasTools of that request
    reply           \* the body sent to the client, or NoResult

streamVars == <<text, pos, nframes, naux, sentDone, wire, upClosed, buffer,
                pendingText, bufferingTool, toolBuffer, lastEnvelope, out,
                lastEvents, phase, resEnded>>
clientVars == <<accepted, clientGone>>
requestVars == <<request, outgoing>>
parseVars == <<pPieces, pIn, pRes, pRes2, body, hasTools, reply>>
vars == <<markers, clock, streamVars, clientVars, requestVars, parseVars>>

----------------------------------------------------------------------------
(* Bounds *)

MaxFrames == 3      \* frames the upstream sends before the sentinel
MaxAux == 1         \* of them, frames that carry no content text
MaxChunk == 5       \* wire units one read returns at most
MaxClock == 1       \* values of Date.now() beyond the first
MaxPieces == 3      \* pieces of a response text given to parse
MaxMsgs == 3        \* messages in a request

----------------------------------------------------------------------------
(* Sequence helpers *)

Take(s, n) == SubSeq(s, 1, n)
Drop(s, n) == SubSeq(s, n + 1, Len(s))
Min(S) == CHOOSE x \in S : \A y \in S : x <= y

RECURSIVE Flatten(_)
Flatten(ss) == IF ss = <<>> THEN <<>> ELSE Head(ss) \o Flatten(Tail(ss))

\* String.prototype.startsWith(tok, p - 1) with 1-based p
IsAt(t, p, tok) ==
    /\ p >= 1
    /\ p + Len(tok) - 1 <= Len(t)
    /\ \A i \in 1..Len(tok) : t[p + i - 1] = tok[i]

\* String.prototype.indexOf(tok, from - 1) + 1; 0 when there is none
IndexOfFrom(t, tok, from) ==
    LET hits == {p \in from..Len(t) : IsAt(t, p, tok)}
    IN IF hits = {} THEN 0 ELSE Min(hits)

IndexOf(t, tok) == IndexOfFrom(t, tok, 1)

Contains(t, tok) == IndexOf(t, tok) # 0

EndsWith(t, tok) == Len(tok) <= Len(t) /\ IsAt(t, Len(t) - Len(tok) + 1, tok)

IsWs(c) == c \in {" ", "\n"}

\* first position >= p that holds no whitespace (Len(t) + 1 when there is none)
SkipWs(t, p) ==
    LET stop == {q \in p..Len(t) : ~IsWs(t[q])}
    IN IF stop = {} THEN Len(t) + 1 ELSE Min(stop)

\* String.prototype.trim
Trim(t) ==
    LET keep == {q \in 1..Len(t) : ~IsWs(t[q])}
    IN IF keep = {} THEN <<>>
       ELSE SubSeq(t, Min(keep), CHOOSE x \in keep : \A y \in keep : y <= x)

\* JSON.parse succeeds: over this alphabet, on a non-empty string of digits
JsonValid(t) == t # <<>> /\ \A i \in 1..Len(t) : t[i] = "1"

----------------------------------------------------------------------------
(* Marker set *)

DELIMITER_SETS ==
    << [open |-> "o1", close |-> "o1", mid |-> "m1"],
       [open |-> "o2", close |-> "c2", mid |-> "m2"],
       [open |-> "o3", close |-> "o3", mid |-> "m3"],
       [open |-> "o4", close |-> "o4", mid |-> "m4"],
       [open |-> "o5", close |-> "o5", mid |-> "m5"],
       [open |-> "o6", close |-> "o6", mid |-> "m6"] >>

SUFFIX_POOL ==
    << "x1", "x2", "x3", "x4", "x5", "x6", "x7", "x8", "x9", "x10",
       "x11", "x12", "x13", "x14", "x15", "x16", "x17", "x18", "x19", "x20" >>

\* mutant of generateMarkers: the result markers end and begin with the
\* glyphs of the call markers, and differ from them by the suffix only
generateMarkersSharedGlyphs(si, s1, s2) ==
    LET set == DELIMITER_SETS[si]
        suffix1 == SUFFIX_POOL[s1]
        suffix2 == SUFFIX_POOL[s2]
    IN [ TC_START     |-> <<set.open, suffix1, ">">>,
         TC_END       |-> <<"<", suffix1, set.close>>,
         NAME_START   |-> <<set.mid, "n>">>,
         NAME_END     |-> <<"<n", set.mid>>,
         ARGS_START   |-> <<set.mid, "a>">>,
         ARGS_END     |-> <<"<a", set.mid>>,
         RESULT_START |-> <<set.open, suffix2, ">">>,
         RESULT_END   |-> <<"<", suffix2, set.close>> ]

\* generateMarkers with the three Math.random() picks as parameters
generateMarkers(si, s1, s2) ==
    LET set == DELIMITER_SETS[si]
        suffix1 == SUFFIX_POOL[s1]
        suffix2 == SUFFIX_POOL[s2]
    IN [ TC_START     |-> <<set.open, suffix1, ">">>,
         TC_END       |-> <<"<", suffix1, set.close>>,
         NAME_START   |-> <<set.mid, "n>">>,
         NAME_END     |-> <<"<n", set.mid>>,
         ARGS_START   |-> <<set.mid, "a>">>,
         ARGS_END     |-> <<"<a", set.mid>>,
         RESULT_START |-> <<set.open, suffix2, "r>">>,
         RESULT_END   |-> <<"<r", suffix2, set.close>> ]

\* the marker sets the parser is run with: one delimiter set whose open and
\* close characters are equal and the one whose are not
MarkerSets ==
    {generateMarkers(si, 1, 2) : si \in {1, 2}}

\* the marker set of the process that serves the streaming request
StreamMarkers == generateMarkers(1, 1, 2)

MarkerTokens(m) ==
    {m.TC_START, m.TC_END, m.NAME_START, m.NAME_END,
     m.ARGS_START, m.ARGS_END, m.RESULT_START, m.RESULT_END}

ContainsToken(m, t) == \E tok \in MarkerTokens(m) : Contains(t, tok)

----------------------------------------------------------------------------
(* Text protocol parser: ToolCallDelimiter.parse *)

\* the positions j >= a where the lazy argument group may stop:
\* ARGS_END at j, \s*, TC_END
ArgsStops(m, t, a) ==
    {j \in a..Len(t) :
        /\ IsAt(t, j, m.ARGS_END)
        /\ IsAt(t, SkipWs(t, j + Len(m.ARGS_END)), m.TC_END)}

\* where the argument group starts when the name group stops at i:
\* after NAME_END, \s* and ARGS_START
ArgsFrom(m, t, i) == SkipWs(t, i + Len(m.NAME_END)) + Len(m.ARGS_START)

\* the positions i >= ns where the lazy name group may stop:
\* NAME_END at i, \s*, ARGS_START, and the rest of the pattern matches
NameStops(m, t, ns) ==
    {i \in ns..Len(t) :
        /\ IsAt(t, i, m.NAME_END)
        /\ IsAt(t, SkipWs(t, i + Len(m.NAME_END)), m.ARGS_START)
        /\ ArgsStops(m, t, ArgsFrom(m, t, i)) # {}}

\* where the name group starts for a match tried at p (TC_START at p, \s*,
\* NAME_START), as a set with at most one element
NameFrom(m, t, p) ==
    IF IsAt(t, p, m.TC_START)
       /\ IsAt(t, SkipWs(t, p + Len(m.TC_START)), m.NAME_START)
    THEN {SkipWs(t, p + Len(m.TC_START)) + Len(m.NAME_START)}
    ELSE {}

\* the least element of a set of positions, as a set with at most one element
Least(S) == {x \in S : \A y \in S : x <= y}

\* the regex tried at position p: the set of its match (empty when it fails).
\* Both groups are lazy: the shortest name for which the rest of the pattern
\* matches, then the shortest arguments
MatchAt(m, t, p) ==
    UNION { UNION { { [lo |-> p,
                       hi |-> SkipWs(t, j + Len(m.ARGS_END)) + Len(m.TC_END) - 1,
                       name |-> SubSeq(t, ns, i - 1),
                       args |-> SubSeq(t, ArgsFrom(m, t, i), j - 1)]
                      : j \in Least(ArgsStops(m, t, ArgsFrom(m, t, i))) }
                    : i \in Least(NameStops(m, t, ns)) }
            : ns \in NameFrom(m, t, p) }

\* regex.exec with lastIndex = from - 1: the leftmost match at or after from,
\* as a set with at most one element
ExecFrom(m, t, from) ==
    UNION { MatchAt(m, t, p) : p \in Least({q \in from..Len(t) : MatchAt(m, t, q) # {}}) }

\* the matches of the global regex: each next one is searched after the end
\* of the one before
RECURSIVE MatchSet(_, _, _)
MatchSet(m, t, from) ==
    UNION { {mt} \cup MatchSet(m, t, mt.hi + 1) : mt \in ExecFrom(m, t, from) }

\* the matches left to right
InOrder(S) ==
    [k \in 1..Cardinality(S) |->
        CHOOSE x \in S : Cardinality({y \in S : y.lo < x.lo}) = k - 1]

AllMatches(m, t, from) == InOrder(MatchSet(m, t, from))

\* the while loop of parse: a match whose arguments are not JSON is skipped,
\* idx counts the accepted calls only
RECURSIVE AcceptCalls(_, _, _)
AcceptCalls(ms, now, idx) ==
    IF ms = <<>> THEN <<>>
    ELSE LET name == Trim(Head(ms).name)
             argsStr == Trim(Head(ms).args)
         IN IF ~JsonValid(argsStr) THEN AcceptCalls(Tail(ms), now, idx)
            ELSE <<[id |-> <<now, idx>>, name |-> name, arguments |-> argsStr]>>
                 \o AcceptCalls(Tail(ms), now, idx + 1)

\* content.replace(regex, '')
RECURSIVE RemoveMatches(_, _, _)
RemoveMatches(t, ms, from) ==
    IF ms = <<>> THEN SubSeq(t, from, Len(t))
    ELSE SubSeq(t, from, Head(ms).lo - 1) \o RemoveMatches(t, Tail(ms), Head(ms).hi + 1)

\* mutant of CleanOf: the residual is not trimmed
CleanOfUntrimmed(t, ms) == RemoveMatches(t, ms, 1)

CleanOf(t, ms) == Trim(RemoveMatches(t, ms, 1))

\* the one element of a one-element set
TheOnly(S) == CHOOSE x \in S : TRUE

\* mutant of parse: a match whose arguments are not JSON is reported too
parseKeepsInvalid(m, content, now) ==
    TheOnly({ [toolCalls |-> [i \in 1..Len(ms) |->
                               [id |-> <<now, i - 1>>, name |-> Trim(ms[i].name),
                                arguments |-> Trim(ms[i].args)]],
               cleanContent |-> CleanOf(content, ms)]
              : ms \in {AllMatches(m, content, 1)} })

parse(m, content, now) ==
    TheOnly({ [toolCalls |-> AcceptCalls(ms, now, 0),
               cleanContent |-> CleanOf(content, ms)]
              : ms \in {AllMatches(m, content, 1)} })

----------------------------------------------------------------------------
(* Values that are absent *)

Null == <<"<null>">>            \* null / undefined in place of a text or a list
NoResult == [none |-> TRUE]     \* not computed yet
NoEnvelope == [none |-> TRUE]   \* lastEnvelope = null

\* JavaScript truthiness of a text-or-null value
Truthy(c) == c # Null /\ c # <<>>

----------------------------------------------------------------------------
(* Non-stream branch of handleRequest *)

\* mutant of finishNonStream: the body is rewritten whenever a text was parsed
finishNonStreamAlways(m, data, requestHasTools, now) ==
    IF requestHasTools /\ Truthy(data.content)
    THEN LET r == parse(m, data.content, now)
         IN [content |-> IF Truthy(r.cleanContent) THEN r.cleanContent ELSE Null,
             tool_calls |-> r.toolCalls,
             finish_reason |-> "tool_calls"]
    ELSE data

\* data.choices[0].message and finish_reason after the branch
finishNonStream(m, data, requestHasTools, now) ==
    IF requestHasTools /\ Truthy(data.content)
    THEN LET r == parse(m, data.content, now)
         IN IF Len(r.toolCalls) > 0
            THEN [content |-> IF Truthy(r.cleanContent) THEN r.cleanContent ELSE Null,
                  tool_calls |-> r.toolCalls,
                  finish_reason |-> "tool_calls"]
            ELSE data
    ELSE data

----------------------------------------------------------------------------
(* Response texts given to the parser *)

\* one tool-call block as the prompt shows it, ws between the tokens
CallText(m, ws, name, args) ==
    m.TC_START \o ws \o m.NAME_START \o name \o m.NAME_END \o ws
    \o m.ARGS_START \o args \o m.ARGS_END \o ws \o m.TC_END

GoodCall(m) == CallText(m, <<>>, <<"n">>, <<"1">>)
SpacedCall(m) == CallText(m, <<" ">>, <<" ", "k">>, <<"1", " ">>)
BadCall(m) == CallText(m, <<>>, <<"n">>, <<"a">>)

PieceIds == {"a", "sp", "good", "spaced", "bad", "head", "rest"}

PieceText(m, id) ==
    CASE id = "a"      -> <<"a">>
      [] id = "sp"     -> <<" ">>
      [] id = "good"   -> GoodCall(m)
      [] id = "spaced" -> SpacedCall(m)
      [] id = "bad"    -> BadCall(m)
      [] id = "head"   -> Take(GoodCall(m), 2)
      [] id = "rest"   -> Drop(GoodCall(m), 2)

TextOf(m, ids) == Flatten([i \in 1..Len(ids) |-> PieceText(m, ids[i])])

PieceSeqs == UNION {[1..k -> PieceIds] : k \in 0..MaxPieces}

StreamIdle ==
    /\ text = <<>> /\ pos = 0 /\ nframes = 0 /\ naux = 0 /\ sentDone = FALSE
    /\ wire = <<>> /\ upClosed = FALSE /\ buffer = <<>> /\ pendingText = <<>>
    /\ bufferingTool = FALSE /\ toolBuffer = <<>> /\ lastEnvelope = NoEnvelope
    /\ out = <<>> /\ lastEvents = <<>> /\ phase = "open" /\ resEnded = FALSE
    /\ accepted = 0 /\ clientGone = FALSE

RequestIdle == request = NoResult /\ outgoing = NoResult

ParseIdle ==
    /\ pPieces = <<>> /\ pIn = <<>> /\ pRes = NoResult /\ pRes2 = NoResult
    /\ body = NoResult /\ hasTools = FALSE /\ reply = NoResult

InitParse ==
    /\ markers \in MarkerSets
    /\ clock = 0
    /\ StreamIdle
    /\ RequestIdle
    /\ pPieces \in PieceSeqs
    /\ pIn = TextOf(markers, pPieces)
    /\ pRes = NoResult /\ pRes2 = NoResult
    /\ body = NoResult /\ hasTools = FALSE /\ reply = NoResult

\* delimiter.parse(pIn)
Parse ==
    /\ pRes = NoResult /\ reply = NoResult
    /\ \E now \in clock..MaxClock :
        /\ clock' = now
        /\ pRes' = parse(markers, pIn, now)
    /\ UNCHANGED <<markers, streamVars, clientVars, requestVars, pPieces, pIn, pRes2, body, hasTools, reply>>

\* delimiter.parse on the residual of the first parse
Reparse ==
    /\ pRes # NoResult /\ pRes2 = NoResult
    /\ \E now \in clock..MaxClock :
        /\ clock' = now
        /\ pRes2' = parse(markers, pRes.cleanContent, now)
    /\ UNCHANGED <<markers, streamVars, clientVars, requestVars, pPieces, pIn, pRes, body, hasTools, reply>>

\* the non-stream branch on an upstream body whose message text is pIn
\* (withText) or is absent
NonStream(ht, withText) ==
    /\ reply = NoResult /\ pRes = NoResult
    /\ \E now \in clock..MaxClock :
        /\ clock' = now
        /\ hasTools' = ht
        /\ body' = [content |-> IF withText THEN pIn ELSE Null,
                    tool_calls |-> Null, finish_reason |-> "stop"]
        /\ reply' = finishNonStream(markers, body', ht, now)
    /\ UNCHANGED <<markers, streamVars, clientVars, requestVars, pPieces, pIn, pRes, pRes2>>

NextParse ==
    \/ Parse
    \/ Reparse
    \/ \E ht \in BOOLEAN, withText \in BOOLEAN : NonStream(ht, withText)

SpecParse == InitParse /\ [][NextParse]_vars

----------------------------------------------------------------------------
(* Request side: hasToolHistory, transformRequest, mergeAdjacentMessages *)

\* one chat message: absent fields are Null; other holds the own properties
\* that are none of the named fields ("none" for a message object)
Msg(role, content, tool_calls, name, tool_call_id) ==
    [role |-> role, content |-> content, tool_calls |-> tool_calls,
     name |-> name, tool_call_id |-> tool_call_id, other |-> "none"]

\* a field that holds an array, and a field that is absent
Arr(list) == [present |-> TRUE, list |-> list]
Absent == [present |-> FALSE, list |-> <<>>]

\* Array.isArray(v)
IsArray(v) == v.present

\* { role, content } as transformRequest builds it
OutMsg(role, content) == Msg(role, content, Absent, Null, Null)

\* { ...msg } of a one-character string: the character under the key 0
SpreadOfChar(c) ==
    [role |-> "undefined", content |-> Null, tool_calls |-> Absent,
     name |-> Null, tool_call_id |-> Null, other |-> c]

\* the messages field of a request: absent, an array of messages, a string
\* (iterable, its elements are characters) or a plain object (not iterable)
Messages(kind, items) == [kind |-> kind, items |-> items]

\* content || ''
OrEmpty(c) == IF c = Null THEN <<>> ELSE c

SCIFI_TOOL_DEF == [name |-> <<"hyper_dimensional_resonance_calibrator">>]

\* the texts joined with sep between them
RECURSIVE Join(_, _)
Join(texts, sep) ==
    IF texts = <<>> THEN <<>>
    ELSE IF Len(texts) = 1 THEN texts[1]
    ELSE texts[1] \o sep \o Join(Tail(texts), sep)

\* one call block as transformRequest and getSystemPrompt write it
CallBlock(m, name, args) ==
    m.TC_START \o <<"nl">> \o m.NAME_START \o name \o m.NAME_END \o <<"nl">>
    \o m.ARGS_START \o args \o m.ARGS_END \o <<"nl">> \o m.TC_END

\* the prompt text: the tool list, the worked example, the output template
getSystemPrompt(m, tools) ==
    <<"## Tool Usage Protocol", "nl">>
    \o Join([i \in 1..Len(tools) |-> <<"- ">> \o tools[i].name], <<"nl">>)
    \o <<"nl", "Assistant:", "nl">>
    \o CallBlock(m, <<"get_current_weather">>, <<"1">>)
    \o <<"nl", "### Your Output Template", "nl">>
    \o CallBlock(m, <<"function_name">>, <<"1">>)

HasCalls(msg) ==
    msg.role = "assistant" /\ IsArray(msg.tool_calls) /\ Len(msg.tool_calls.list) > 0

hasToolHistory(req) ==
    /\ req.messages.kind = "array"
    /\ \E i \in 1..Len(req.messages.items) :
           req.messages.items[i].role = "tool" \/ HasCalls(req.messages.items[i])

\* mutant of CallsAsText: the call blocks are written last call first
CallsAsTextReversed(m, msg, ht) ==
    IF ht
    THEN OrEmpty(msg.content)
         \o Flatten([i \in 1..Len(msg.tool_calls.list) |->
                <<"nl">> \o CallBlock(m,
                    msg.tool_calls.list[Len(msg.tool_calls.list) + 1 - i].name,
                    msg.tool_calls.list[Len(msg.tool_calls.list) + 1 - i].arguments)])
    ELSE OrEmpty(msg.content) \o <<"nl", "nl", "[Called tools: ">>
         \o Join([i \in 1..Len(msg.tool_calls.list) |-> msg.tool_calls.list[i].name],
                 <<", ">>)
         \o <<"]">>

\* the content of an assistant message with tool calls
CallsAsText(m, msg, ht) ==
    IF ht
    THEN OrEmpty(msg.content)
         \o Flatten([i \in 1..Len(msg.tool_calls.list) |->
                <<"nl">> \o CallBlock(m, msg.tool_calls.list[i].name,
                                         msg.tool_calls.list[i].arguments)])
    ELSE OrEmpty(msg.content) \o <<"nl", "nl", "[Called tools: ">>
         \o Join([i \in 1..Len(msg.tool_calls.list) |-> msg.tool_calls.list[i].name],
                 <<", ">>)
         \o <<"]">>

\* the content of the user message that replaces a tool message
ResultAsText(m, msg, ht) ==
    LET name == IF msg.name # Null THEN msg.name
                ELSE IF msg.tool_call_id # Null THEN msg.tool_call_id
                ELSE <<"unknown">>
        result == IF msg.content # Null THEN msg.content ELSE <<"null">>
    IN IF ht
       THEN m.RESULT_START \o <<"[">> \o name \o <<"]", "nl">> \o result \o m.RESULT_END
       ELSE <<"[Tool result: ">> \o name \o <<"]", "nl">> \o result

\* the body of the loop over rawMessages for one element
walkMessage(m, msg, ht, toolSystemPrompt) ==
    IF msg.role = "system"
    THEN OutMsg("system", OrEmpty(msg.content)
                 \o (IF toolSystemPrompt # <<>>
                     THEN <<"nl", "nl">> \o toolSystemPrompt ELSE <<>>))
    ELSE IF HasCalls(msg) THEN OutMsg("assistant", CallsAsText(m, msg, ht))
    ELSE IF msg.role = "tool" THEN OutMsg("user", ResultAsText(m, msg, ht))
    ELSE msg

fakeAssistantContent(m) ==
    <<"Detected abnormal dimensional rift fluctuation", "nl">>
    \o CallBlock(m, SCIFI_TOOL_DEF.name, <<"1">>)

fakeToolResult(m) ==
    m.RESULT_START \o <<"[">> \o SCIFI_TOOL_DEF.name \o <<"]", "nl", "1">>
    \o m.RESULT_END

\* mutant of spliceOneShot: the fabricated pair is put after the last message
spliceOneShotAtEnd(m, outMessages) ==
    IF outMessages # <<>> /\ outMessages[Len(outMessages)].role = "user"
    THEN outMessages \o <<OutMsg("assistant", fakeAssistantContent(m)),
                           OutMsg("user", fakeToolResult(m))>>
    ELSE outMessages

\* outMessages.splice(outMessages.length - 1, 0, fake assistant, fake user)
spliceOneShot(m, outMessages) ==
    IF outMessages # <<>> /\ outMessages[Len(outMessages)].role = "user"
    THEN SubSeq(outMessages, 1, Len(outMessages) - 1)
         \o <<OutMsg("assistant", fakeAssistantContent(m)),
              OutMsg("user", fakeToolResult(m)),
              outMessages[Len(outMessages)]>>
    ELSE outMessages

\* mutant of mergeLoop: the later content is put before the earlier one
RECURSIVE mergeLoopSwapped(_, _, _)
mergeLoopSwapped(merged, current, rest) ==
    IF rest = <<>> THEN Append(merged, current)
    ELSE IF Head(rest).role = current.role
         THEN mergeLoopSwapped(merged,
                        [current EXCEPT !.content =
                            OrEmpty(Head(rest).content) \o <<"nl", "nl">>
                            \o OrEmpty(current.content)],
                        Tail(rest))
         ELSE mergeLoopSwapped(Append(merged, current), Head(rest), Tail(rest))

\* the loop of mergeAdjacentMessages from its i-th step on
RECURSIVE mergeLoop(_, _, _)
mergeLoop(merged, current, rest) ==
    IF rest = <<>> THEN Append(merged, current)
    ELSE IF Head(rest).role = current.role
         THEN mergeLoop(merged,
                        [current EXCEPT !.content =
                            OrEmpty(current.content) \o <<"nl", "nl">>
                            \o OrEmpty(Head(rest).content)],
                        Tail(rest))
         ELSE mergeLoop(Append(merged, current), Head(rest), Tail(rest))

mergeAdjacentMessages(messages) ==
    IF messages = <<>> THEN <<>>
    ELSE mergeLoop(<<>>, messages[1], Tail(messages))

\* an outgoing body; error is TRUE when transformRequest threw instead
Body(messages, tools, error) ==
    [messages |-> messages, tools |-> tools, error |-> error]

\* for (const msg of rawMessages) throws on a value that is not iterable
NotIterable(req) == req.messages.kind = "object"

\* request.messages || [], as the for-of loop sees it: the messages of an
\* array, the characters of a string
rawMessagesOf(req) ==
    CASE req.messages.kind = "array"  -> req.messages.items
      [] req.messages.kind = "string" ->
             [i \in 1..Len(req.messages.items) |-> SpreadOfChar(req.messages.items[i])]
      [] OTHER -> <<>>

\* mutant of outMessagesOf: the one-shot is decided without looking for
\* tool history
outMessagesOfIgnoringHistory(m, req, ht) ==
    LET raw == rawMessagesOf(req)
        lastIsUser == raw # <<>> /\ raw[Len(raw)].role = "user"
        shouldInjectOneShot == ht /\ lastIsUser
        tools == IF IsArray(req.tools) THEN req.tools.list ELSE <<>>
        activeTools == IF shouldInjectOneShot
                       THEN Append(tools, SCIFI_TOOL_DEF) ELSE tools
        toolSystemPrompt == IF ht /\ activeTools # <<>>
                            THEN getSystemPrompt(m, activeTools) ELSE <<>>
        walked == [i \in 1..Len(raw) |-> walkMessage(m, raw[i], ht, toolSystemPrompt)]
        hasSystem == \E i \in 1..Len(raw) : raw[i].role = "system"
        withSystem == IF ~hasSystem /\ toolSystemPrompt # <<>>
                      THEN <<OutMsg("system", toolSystemPrompt)>> \o walked
                      ELSE walked
    IN IF shouldInjectOneShot THEN spliceOneShot(m, withSystem) ELSE withSystem

\* the messages before mergeAdjacentMessages: walk, system prompt, one-shot
outMessagesOf(m, req, ht) ==
    LET raw == rawMessagesOf(req)
        historyExists == hasToolHistory(req)
        lastIsUser == raw # <<>> /\ raw[Len(raw)].role = "user"
        shouldInjectOneShot == ht /\ ~historyExists /\ lastIsUser
        tools == IF IsArray(req.tools) THEN req.tools.list ELSE <<>>
        activeTools == IF shouldInjectOneShot
                       THEN Append(tools, SCIFI_TOOL_DEF) ELSE tools
        toolSystemPrompt == IF ht /\ activeTools # <<>>
                            THEN getSystemPrompt(m, activeTools) ELSE <<>>
        walked == [i \in 1..Len(raw) |-> walkMessage(m, raw[i], ht, toolSystemPrompt)]
        hasSystem == \E i \in 1..Len(raw) : raw[i].role = "system"
        withSystem == IF ~hasSystem /\ toolSystemPrompt # <<>>
                      THEN <<OutMsg("system", toolSystemPrompt)>> \o walked
                      ELSE walked
    IN IF shouldInjectOneShot THEN spliceOneShot(m, withSystem) ELSE withSystem

transformRequest(m, req, ht) ==
    IF NotIterable(req)
    THEN Body(Messages("absent", <<>>), Absent, TRUE)
    ELSE Body(Messages("array", mergeAdjacentMessages(outMessagesOf(m, req, ht))),
              Absent, FALSE)

\* handleRequest up to the fetch: the body that goes to the upstream
bodyToUpstream(m, req) ==
    LET requestHasTools == IsArray(req.tools) /\ Len(req.tools.list) > 0
        needsTransform == requestHasTools \/ hasToolHistory(req)
    IN IF needsTransform THEN transformRequest(m, req, requestHasTools)
       ELSE Body(req.messages, req.tools, FALSE)

\* the messages a client may send: system, two user texts, an assistant
\* text with no tool_calls field, with an empty tool_calls array and with
\* tool calls (one without text, one with text and two calls), a tool result
\* with a tool_call_id and one with neither name nor id
MsgIds == {"sys", "ua", "ub", "ac", "ae", "at", "at2", "tl", "tu"}

Call(name) == [name |-> name, arguments |-> <<"1">>]

MsgOf(id) ==
    CASE id = "sys" -> Msg("system", <<"s">>, Absent, Null, Null)
      [] id = "ua"  -> Msg("user", <<"a">>, Absent, Null, Null)
      [] id = "ub"  -> Msg("user", <<"b">>, Absent, Null, Null)
      [] id = "ac"  -> Msg("assistant", <<"c">>, Absent, Null, Null)
      [] id = "ae"  -> Msg("assistant", <<"c">>, Arr(<<>>), Null, Null)
      [] id = "at"  -> Msg("assistant", Null, Arr(<<Call(<<"n">>)>>), Null, Null)
      [] id = "at2" -> Msg("assistant", <<"c">>,
                           Arr(<<Call(<<"n">>), Call(<<"k">>)>>), Null, Null)
      [] id = "tl"  -> Msg("tool", <<"r">>, Absent, Null, <<"id1">>)
      [] id = "tu"  -> Msg("tool", <<"r">>, Absent, Null, Null)

MsgLists == UNION {[1..k -> MsgIds] : k \in 0..MaxMsgs}

MessagesFields ==
    {Messages("array", [i \in 1..Len(ids) |-> MsgOf(ids[i])]) : ids \in MsgLists}
    \cup {Messages("absent", <<>>), Messages("string", <<"a", "b">>),
          Messages("object", <<>>)}

ToolsFields == {Absent, Arr(<<>>), Arr(<<[name |-> <<"t">>]>>)}

Requests == {Body(ms, ts, FALSE) : ms \in MessagesFields, ts \in ToolsFields}

InitRequest ==
    /\ markers \in MarkerSets
    /\ clock = 0
    /\ StreamIdle
    /\ ParseIdle
    /\ request \in Requests
    /\ outgoing = NoResult

\* handleRequest from req.body to the body given to fetch
HandleRequest ==
    /\ outgoing = NoResult
    /\ outgoing' = bodyToUpstream(markers, request)
    /\ UNCHANGED <<markers, clock, streamVars, clientVars, parseVars, request>>

NextRequest == HandleRequest

SpecRequest == InitRequest /\ [][NextRequest]_vars

----------------------------------------------------------------------------
(* An assistant message with tool calls, encoded by transformRequest and
   given back to parse *)

MaxCalls == 2

\* the line feed, written "nl" in the texts of the request side, as the
\* parser side writes it
AsResponseText(t) == [i \in 1..Len(t) |-> IF t[i] = "nl" THEN "\n" ELSE t[i]]

\* { function: { name, arguments } } of a tool call of the client
CallWith(name, args) == [name |-> name, arguments |-> args]

\* names: plain, with a space inside, with a space in front; arguments: two
\* JSON texts, a JSON text with a space in front, and a text that is not JSON
RtNames == {<<"n">>, <<"k", " ", "k">>, <<" ", "n">>}
RtArgs == {<<"1">>, <<"1", "1">>, <<" ", "1">>, <<"a">>}
RtCalls == {CallWith(n, a) : n \in RtNames, a \in RtArgs}
RtCallLists == UNION {[1..k -> RtCalls] : k \in 1..MaxCalls}

\* the message text: absent, plain, with spaces around, and with the text of
\* a call in it
RtContents(m) == {Null, <<"c">>, <<" ", "c", " ">>, <<"c">> \o GoodCall(m)}

InitRoundTrip ==
    /\ markers \in MarkerSets
    /\ clock = 0
    /\ StreamIdle
    /\ ParseIdle
    /\ \E c \in RtContents(markers) : \E calls \in RtCallLists :
          request = Body(Messages("array", <<Msg("assistant", c, Arr(calls), Null, Null)>>),
                         Arr(<<[name |-> <<"t">>]>>), FALSE)
    /\ outgoing = NoResult

\* delimiter.parse on the text of the assistant message of the outgoing body
ParseEncoded ==
    /\ outgoing # NoResult /\ ~outgoing.error /\ pRes = NoResult
    /\ pIn' = AsResponseText(outgoing.messages.items[Len(outgoing.messages.items)].content)
    /\ \E now \in clock..MaxClock :
          /\ clock' = now
          /\ pRes' = parse(markers, pIn', now)
    /\ UNCHANGED <<markers, streamVars, clientVars, requestVars,
                   pPieces, pRes2, body, hasTools, reply>>

NextRoundTrip == HandleRequest \/ ParseEncoded

SpecRoundTrip == InitRoundTrip /\ [][NextRoundTrip]_vars

----------------------------------------------------------------------------
(* The start of the process: const delimiter = new ToolCallDelimiter() *)

\* this.markers before the constructor has run
NoMarkers ==
    [ TC_START |-> <<>>, TC_END |-> <<>>, NAME_START |-> <<>>, NAME_END |-> <<>>,
      ARGS_START |-> <<>>, ARGS_END |-> <<>>,
      RESULT_START |-> <<>>, RESULT_END |-> <<>> ]

\* what generateMarkers can return: every delimiter set with every two picks
\* from the suffix pool
AllMarkerSets ==
    { generateMarkers(si, s1, s2) :
        si \in 1..Len(DELIMITER_SETS),
        s1 \in 1..Len(SUFFIX_POOL), s2 \in 1..Len(SUFFIX_POOL) }

InitMarkers ==
    /\ markers = NoMarkers
    /\ clock = 0
    /\ StreamIdle
    /\ RequestIdle
    /\ ParseIdle

\* the constructor: this.markers = this.generateMarkers()
Construct ==
    /\ markers = NoMarkers
    /\ \E si \in 1..Len(DELIMITER_SETS) :
       \E s1 \in 1..Len(SUFFIX_POOL) :
       \E s2 \in 1..Len(SUFFIX_POOL) :
          markers' = generateMarkers(si, s1, s2)
    /\ UNCHANGED <<clock, streamVars, clientVars, requestVars, parseVars>>

NextMarkers == Construct

SpecMarkers == InitMarkers /\ [][NextMarkers]_vars

----------------------------------------------------------------------------
(* SSE framing: SseEventParser *)

\* one decoded upstream JSON payload: whether it has choices[0], the text of
\* choices[0].delta.content (Null when absent), its other fields, and
\* choices[0].finish_reason
Frame(choices, content, extra, finish) ==
    [choices |-> choices, content |-> content, extra |-> extra, finish |-> finish]

NoFrame == Frame(FALSE, Null, "none", "null")

\* wire units: the line feed, a "data: " line holding the sentinel, and a
\* "data: " line holding a JSON payload, cut in two so that a read can end
\* inside it (the payload without its tail is not JSON)
NL == [u |-> "nl", f |-> NoFrame]
DoneU == [u |-> "done", f |-> NoFrame]
HeadU(f) == [u |-> "head", f |-> f]
TailU == [u |-> "tail", f |-> NoFrame]

WireJson(f) == <<HeadU(f), TailU, NL, NL>>
WireTruncated(f) == <<HeadU(f), NL, NL>>
WireDone == <<DoneU, NL, NL>>

\* the while loop of pushText on the joined buffer
RECURSIVE SplitEvents(_)
SplitEvents(b) ==
    LET idx == IndexOf(b, <<NL, NL>>)
    IN IF idx = 0 THEN [events |-> <<>>, buffer |-> b]
       ELSE LET r == SplitEvents(Drop(b, idx + 1))
            IN [events |-> <<Take(b, idx - 1)>> \o r.events, buffer |-> r.buffer]

pushText(buf, chunk) == SplitEvents(buf \o chunk)

\* rawEvent.split('\n')
RECURSIVE SplitLines(_)
SplitLines(e) ==
    LET idx == IndexOf(e, <<NL>>)
    IN IF idx = 0 THEN <<e>>
       ELSE <<Take(e, idx - 1)>> \o SplitLines(Drop(e, idx))

\* the lines that start with "data:", without the prefix
extractDataLines(rawEvent) ==
    SelectSeq(SplitLines(rawEvent), LAMBDA l : l # <<>>)

isDoneEvent(rawEvent) ==
    LET datas == extractDataLines(rawEvent)
    IN Len(datas) = 1 /\ datas[1] = <<DoneU>>

\* "null", "done", "raw" (JSON.parse threw) or "json" with the payload
parseJsonFromEvent(rawEvent) ==
    LET datas == extractDataLines(rawEvent)
        joined == Flatten(datas)
    IN IF Len(datas) = 0 THEN [t |-> "null", f |-> NoFrame]
       ELSE IF Len(datas) = 1 /\ datas[1] = <<DoneU>> THEN [t |-> "done", f |-> NoFrame]
       ELSE IF Len(joined) = 2 /\ joined[1].u = "head" /\ joined[2] = TailU
            THEN [t |-> "json", f |-> joined[1].f]
            ELSE [t |-> "raw", f |-> NoFrame]

----------------------------------------------------------------------------
(* Events pushed to the client *)

\* why names the push that produced the event
Evt(kind, why, f, content, calls, raw) ==
    [kind |-> kind, why |-> why, choices |-> f.choices, content |-> content,
     extra |-> f.extra, finish |-> f.finish, tool_calls |-> calls, raw |-> raw]

\* sseEncodeJson of a payload
JsonEvt(why, f, content) == Evt("json", why, f, content, Null, <<>>)

\* rawEvent + '\n\n'
RawEvt(rawEvent) == Evt("raw", "raw", NoFrame, Null, Null, rawEvent)

\* sseEncodeData('[DONE]')
DoneEvt == Evt("done", "done", NoFrame, Null, Null, <<>>)

----------------------------------------------------------------------------
(* Streaming transcoder: createTransparentToolStreamTransformer *)

\* mutant of findPartialMatchEndIndex: the loop starts at marker.length - 2,
\* so that the longest strict prefix of the marker is never held back
findPartialMatchEndIndexShort(t, marker) ==
    LET is == {i \in 1..(Len(marker) - 2) : EndsWith(t, Take(marker, i))}
    IN IF is = {} THEN Len(t)
       ELSE Len(t) - (CHOOSE i \in is : \A j \in is : j <= i)

\* for i = marker.length - 1 down to 1: text.endsWith(marker.slice(0, i))
findPartialMatchEndIndex(t, marker) ==
    LET is == {i \in 1..(Len(marker) - 1) : EndsWith(t, Take(marker, i))}
    IN IF is = {} THEN Len(t)
       ELSE Len(t) - (CHOOSE i \in is : \A j \in is : j <= i)

\* 0 when the marker is not in the text, else where it starts
splitByMarker(t, marker) == IndexOf(t, marker)

\* the event injectToolCallsEvent builds from the last envelope
injectToolCallsEvent(baseEvent, toolCalls) ==
    LET base == IF baseEvent = NoEnvelope THEN NoFrame ELSE baseEvent
        calls == [i \in 1..Len(toolCalls) |->
                    [index |-> i - 1, id |-> toolCalls[i].id,
                     name |-> toolCalls[i].name,
                     arguments |-> toolCalls[i].arguments]]
    IN Evt("json", "tool_calls",
           Frame(TRUE, base.content, base.extra, "null"),
           IF base.choices THEN base.content ELSE Null, calls, <<>>)

\* the transformer's state during one transform() or flush() call
St(pt, bt, tb, le, o, failed) ==
    [pendingText |-> pt, bufferingTool |-> bt, toolBuffer |-> tb,
     lastEnvelope |-> le, out |-> o, failed |-> failed]

Push(st, e) == [st EXCEPT !.out = Append(@, e)]
Throw(st) == [st EXCEPT !.failed = TRUE]

\* the push of the held pending tail, at [DONE] and in flush():
\* evt.choices[0].delta throws when the last envelope has no choices
pushPending(st) ==
    IF st.lastEnvelope.choices
    THEN Push(st, JsonEvt("pending", st.lastEnvelope, st.pendingText))
    ELSE Throw(st)

\* the push of the synthesized tool-call event, when there are calls
pushCalls(st, toolCalls) ==
    IF ~st.failed /\ Len(toolCalls) > 0 /\ st.lastEnvelope # NoEnvelope
    THEN Push(st, injectToolCallsEvent(st.lastEnvelope, toolCalls))
    ELSE st

\* the content patch of the [DONE] branch: the clone of the last envelope is
\* pushed, with the residual as its content only if it has choices[0]
patchAtDone(st, cleanContent) ==
    IF cleanContent # <<>> /\ st.lastEnvelope # NoEnvelope
    THEN Push(st, JsonEvt("patch", st.lastEnvelope,
                          IF st.lastEnvelope.choices THEN cleanContent
                          ELSE st.lastEnvelope.content))
    ELSE st

\* mutant of doneBranch: the tool-call event is pushed before the content patch
doneBranchCallsFirst(m, st, now) ==
    IF st.toolBuffer # <<>>
    THEN TheOnly({ patchAtDone(pushCalls(st, r.toolCalls), r.cleanContent)
                   : r \in {parse(m, st.toolBuffer, now)} })
    ELSE IF st.pendingText # <<>> /\ st.lastEnvelope # NoEnvelope
         THEN pushPending(st)
         ELSE st

\* the pushes that precede the sentinel in the [DONE] branch
doneBranch(m, st, now) ==
    IF st.toolBuffer # <<>>
    THEN TheOnly({ pushCalls(patchAtDone(st, r.cleanContent), r.toolCalls)
                   : r \in {parse(m, st.toolBuffer, now)} })
    ELSE IF st.pendingText # <<>> /\ st.lastEnvelope # NoEnvelope
         THEN pushPending(st)
         ELSE st

\* mutant of processEvent: the last envelope is recorded before the raw
\* passthrough is decided, so that an undecodable frame replaces it
processEventRawAsEnvelope(m, st, rawEvent, now) ==
    IF st.failed THEN st
    ELSE IF isDoneEvent(rawEvent)
    THEN TheOnly({ IF s1.failed THEN s1 ELSE Push(s1, DoneEvt)
                   : s1 \in {doneBranch(m, st, now)} })
    ELSE LET parsed == parseJsonFromEvent(rawEvent)
             f == parsed.f
             s0 == [st EXCEPT !.lastEnvelope = f] IN
    IF parsed.t # "json" THEN Push(s0, RawEvt(rawEvent))
    ELSE IF ~f.choices THEN Push(s0, JsonEvt("fwd", f, f.content))
    ELSE IF f.content = Null \/ f.content = <<>> THEN Push(s0, JsonEvt("fwd", f, f.content))
    ELSE IF s0.bufferingTool
    THEN Push([s0 EXCEPT !.toolBuffer = @ \o f.content], JsonEvt("fwd", f, Null))
    ELSE LET combined == s0.pendingText \o f.content
             hit == splitByMarker(combined, m.TC_START) IN
    IF hit # 0
    THEN LET before == Take(combined, hit - 1)
             s1 == Push(s0, JsonEvt("fwd", f, IF before # <<>> THEN before ELSE Null))
         IN [s1 EXCEPT !.toolBuffer = Drop(combined, hit - 1),
                       !.pendingText = <<>>,
                       !.bufferingTool = TRUE]
    ELSE LET safeEnd == findPartialMatchEndIndex(combined, m.TC_START)
             safeText == Take(combined, safeEnd)
             tail == Drop(combined, safeEnd)
             s1 == Push(s0, JsonEvt("fwd", f, IF safeText # <<>> THEN safeText ELSE Null))
         IN [s1 EXCEPT !.pendingText = tail]

\* mutant of processEvent: Buffering ends with the frame that brings the
\* closing marker, and the frames after it are scanned again
processEventLeavesBuffering(m, st, rawEvent, now) ==
    IF st.failed THEN st
    ELSE IF isDoneEvent(rawEvent)
    THEN TheOnly({ IF s1.failed THEN s1 ELSE Push(s1, DoneEvt)
                   : s1 \in {doneBranch(m, st, now)} })
    ELSE LET parsed == parseJsonFromEvent(rawEvent) IN
    IF parsed.t # "json" THEN Push(st, RawEvt(rawEvent))
    ELSE LET f == parsed.f
             s0 == [st EXCEPT !.lastEnvelope = f] IN
    IF ~f.choices THEN Push(s0, JsonEvt("fwd", f, f.content))
    ELSE IF f.content = Null \/ f.content = <<>> THEN Push(s0, JsonEvt("fwd", f, f.content))
    ELSE IF s0.bufferingTool
    THEN Push([s0 EXCEPT !.toolBuffer = @ \o f.content,
                         !.bufferingTool = ~Contains(s0.toolBuffer \o f.content, m.TC_END)],
              JsonEvt("fwd", f, Null))
    ELSE LET combined == s0.pendingText \o f.content
             hit == splitByMarker(combined, m.TC_START) IN
    IF hit # 0
    THEN LET before == Take(combined, hit - 1)
             s1 == Push(s0, JsonEvt("fwd", f, IF before # <<>> THEN before ELSE Null))
         IN [s1 EXCEPT !.toolBuffer = Drop(combined, hit - 1),
                       !.pendingText = <<>>,
                       !.bufferingTool = TRUE]
    ELSE LET safeEnd == findPartialMatchEndIndex(combined, m.TC_START)
             safeText == Take(combined, safeEnd)
             tail == Drop(combined, safeEnd)
             s1 == Push(s0, JsonEvt("fwd", f, IF safeText # <<>> THEN safeText ELSE Null))
         IN [s1 EXCEPT !.pendingText = tail]

\* the body of the for loop of transform() for one raw event
processEvent(m, st, rawEvent, now) ==
    IF st.failed THEN st
    ELSE IF isDoneEvent(rawEvent)
    THEN TheOnly({ IF s1.failed THEN s1 ELSE Push(s1, DoneEvt)
                   : s1 \in {doneBranch(m, st, now)} })
    ELSE LET parsed == parseJsonFromEvent(rawEvent) IN
    IF parsed.t # "json" THEN Push(st, RawEvt(rawEvent))
    ELSE LET f == parsed.f
             s0 == [st EXCEPT !.lastEnvelope = f] IN
    IF ~f.choices THEN Push(s0, JsonEvt("fwd", f, f.content))
    ELSE IF f.content = Null \/ f.content = <<>> THEN Push(s0, JsonEvt("fwd", f, f.content))
    ELSE IF s0.bufferingTool
    THEN Push([s0 EXCEPT !.toolBuffer = @ \o f.content], JsonEvt("fwd", f, Null))
    ELSE LET combined == s0.pendingText \o f.content
             hit == splitByMarker(combined, m.TC_START) IN
    IF hit # 0
    THEN LET before == Take(combined, hit - 1)
             s1 == Push(s0, JsonEvt("fwd", f, IF before # <<>> THEN before ELSE Null))
         IN [s1 EXCEPT !.toolBuffer = Drop(combined, hit - 1),
                       !.pendingText = <<>>,
                       !.bufferingTool = TRUE]
    ELSE LET safeEnd == findPartialMatchEndIndex(combined, m.TC_START)
             safeText == Take(combined, safeEnd)
             tail == Drop(combined, safeEnd)
             s1 == Push(s0, JsonEvt("fwd", f, IF safeText # <<>> THEN safeText ELSE Null))
         IN [s1 EXCEPT !.pendingText = tail]

\* the for loop of transform() over the raw events of one chunk
RECURSIVE processEvents(_, _, _, _)
processEvents(m, st, rawEvents, now) ==
    IF rawEvents = <<>> THEN st
    ELSE CHOOSE r \in {processEvents(m, s1, Tail(rawEvents), now) :
                         s1 \in {processEvent(m, st, Head(rawEvents), now)}} : TRUE

\* the content patch of flush(): evt.choices[0].delta is not guarded
patchAtFlush(st, cleanContent) ==
    IF cleanContent # <<>>
    THEN IF st.lastEnvelope.choices
         THEN Push(st, JsonEvt("patch", st.lastEnvelope, cleanContent))
         ELSE Throw(st)
    ELSE st

\* the second half of flush(): the buffered tool region
flushTool(m, st, now) ==
    IF ~st.failed /\ st.toolBuffer # <<>> /\ st.lastEnvelope # NoEnvelope
    THEN TheOnly({ pushCalls(patchAtFlush(st, r.cleanContent), r.toolCalls)
                   : r \in {parse(m, st.toolBuffer, now)} })
    ELSE st

\* flush(): the best-effort flush when the writable side is ended
flushTail(m, st, now) ==
    IF st.pendingText # <<>> /\ st.lastEnvelope # NoEnvelope /\ ~st.bufferingTool
    THEN flushTool(m, pushPending(st), now)
    ELSE flushTool(m, st, now)

----------------------------------------------------------------------------
(* One streaming request: the upstream, the read loop of handleRequest and
   the transformer *)

\* the content texts the upstream model may produce: prose, prose that ends
\* in half a start marker, one call after prose and a stray first marker
\* character, a start marker that no call follows, a call whose arguments
\* are not JSON, and three calls (the middle one not JSON) with prose after
Texts(m) ==
    { <<" ", "a", " ">>,
      <<"a">> \o Take(m.TC_START, 2),
      <<"a", " ">> \o Take(m.TC_START, 1) \o GoodCall(m),
      <<"a", " ">> \o m.TC_START \o <<"a">>,
      BadCall(m),
      GoodCall(m) \o BadCall(m) \o SpacedCall(m) \o <<" ", "a">> }

\* where the content frame that starts after position p may end: anywhere up
\* to the end of the first start marker, or at the end of the text
SliceEnds(m, t, p) ==
    LET idx == IndexOf(t, m.TC_START)
        zone == IF idx = 0 THEN Len(t) ELSE idx + Len(m.TC_START) - 1
    IN {e \in (p + 1)..Len(t) : e <= zone \/ e = Len(t)}

Init ==
    /\ markers = StreamMarkers
    /\ clock = 0
    /\ text \in Texts(markers)
    /\ pos = 0 /\ nframes = 0 /\ naux = 0 /\ sentDone = FALSE
    /\ wire = <<>> /\ upClosed = FALSE /\ buffer = <<>> /\ pendingText = <<>>
    /\ bufferingTool = FALSE /\ toolBuffer = <<>> /\ lastEnvelope = NoEnvelope
    /\ out = <<>> /\ lastEvents = <<>> /\ phase = "open" /\ resEnded = FALSE
    /\ accepted = 0 /\ clientGone = FALSE
    /\ RequestIdle
    /\ ParseIdle

transformerVars == <<buffer, pendingText, bufferingTool, toolBuffer,
                     lastEnvelope, out, lastEvents, phase, resEnded>>

UpCanSend ==
    /\ ~upClosed /\ ~sentDone /\ phase = "open"
    /\ nframes < MaxFrames
    /\ wire = <<>>

\* the upstream sends the text from pos + 1 to e as one content frame
UpContent(e) ==
    /\ UpCanSend
    /\ e \in SliceEnds(markers, text, pos)
    /\ wire' = wire \o WireJson(Frame(TRUE, SubSeq(text, pos + 1, e), "role", "null"))
    /\ pos' = e
    /\ nframes' = nframes + 1
    /\ UNCHANGED <<markers, clock, text, naux, sentDone, upClosed,
                   transformerVars, clientVars, requestVars, parseVars>>

\* the upstream sends a frame without content text: a usage-only payload
\* without choices, a reasoning-only delta that closes the choice, or a
\* payload that is not JSON
UpAux(kind) ==
    /\ UpCanSend
    /\ naux < MaxAux
    /\ wire' = wire \o
         (CASE kind = "usage"     -> WireJson(Frame(FALSE, Null, "usage", "null"))
            [] kind = "reasoning" -> WireJson(Frame(TRUE, Null, "reasoning", "stop"))
            [] kind = "broken"    -> WireTruncated(Frame(TRUE, <<"a">>, "role", "null")))
    /\ naux' = naux + 1
    /\ nframes' = nframes + 1
    /\ UNCHANGED <<markers, clock, text, pos, sentDone, upClosed,
                   transformerVars, clientVars, requestVars, parseVars>>

\* the upstream sends the terminal sentinel
UpDone ==
    /\ ~upClosed /\ ~sentDone /\ phase = "open"
    /\ wire' = wire \o WireDone
    /\ sentDone' = TRUE
    /\ UNCHANGED <<markers, clock, text, pos, nframes, naux, upClosed,
                   transformerVars, clientVars, requestVars, parseVars>>

\* reader.read() returns the next n wire units; transformer.write(chunk)
\* runs transform() on them
Read(n) ==
    /\ phase = "open"
    /\ n \in 1..MaxChunk /\ n <= Len(wire)
    /\ \E pushed \in {pushText(buffer, Take(wire, n))} :
        \E now \in clock..MaxClock :
        \E st \in {St(pendingText, bufferingTool, toolBuffer, lastEnvelope, out, FALSE)} :
        \E s1 \in {processEvents(markers, st, pushed.events, now)} :
           /\ clock' = IF /\ s1.toolBuffer # <<>>
                          /\ \E k \in 1..Len(pushed.events) :
                                 isDoneEvent(pushed.events[k])
                       THEN now ELSE clock
           /\ pendingText' = s1.pendingText
           /\ bufferingTool' = s1.bufferingTool
           /\ toolBuffer' = s1.toolBuffer
           /\ lastEnvelope' = s1.lastEnvelope
           /\ out' = s1.out
           /\ phase' = IF s1.failed THEN "failed" ELSE "open"
           /\ buffer' = pushed.buffer
           /\ lastEvents' = pushed.events
    /\ wire' = Drop(wire, n)
    /\ UNCHANGED <<markers, text, pos, nframes, naux, sentDone, upClosed, resEnded,
                   clientVars, requestVars, parseVars>>

\* mutant of Flush: no handler for the 'error' event, so that a flush() that
\* throws leaves the response open
FlushNoErrorHandler ==
    /\ \E now \in clock..MaxClock :
       \E st \in {St(pendingText, bufferingTool, toolBuffer, lastEnvelope, out, FALSE)} :
       \E s1 \in {flushTail(markers, st, now)} :
          /\ clock' = IF toolBuffer # <<>> THEN now ELSE clock
          /\ out' = s1.out
          /\ phase' = IF s1.failed THEN "failed" ELSE "ended"
          /\ resEnded' = ~s1.failed
    /\ lastEvents' = <<>>
    /\ UNCHANGED <<buffer, pendingText, bufferingTool, toolBuffer, lastEnvelope>>

\* the effect of transformer.end(): flush() runs once, and the 'end' event,
\* or the 'error' event when flush() threw, ends the response
Flush ==
    /\ \E now \in clock..MaxClock :
       \E st \in {St(pendingText, bufferingTool, toolBuffer, lastEnvelope, out, FALSE)} :
       \E s1 \in {flushTail(markers, st, now)} :
          /\ clock' = IF toolBuffer # <<>> THEN now ELSE clock
          /\ out' = s1.out
          /\ phase' = IF s1.failed THEN "failed" ELSE "ended"
    /\ lastEvents' = <<>>
    /\ resEnded' = TRUE
    /\ UNCHANGED <<buffer, pendingText, bufferingTool, toolBuffer, lastEnvelope>>

\* the upstream has closed the connection, after the sentinel or without
\* one, and reader.read() reports the end of the body: transformer.end()
End ==
    /\ phase = "open" /\ ~upClosed /\ wire = <<>>
    /\ upClosed' = TRUE
    /\ Flush
    /\ UNCHANGED <<markers, text, pos, nframes, naux, sentDone, wire,
                   clientVars, requestVars, parseVars>>

\* reader.read() rejects (the connection failed): the catch clause calls
\* transformer.end(); what was in flight is lost
ReadFails ==
    /\ phase = "open" /\ ~upClosed /\ wire # <<>>
    /\ wire' = <<>>
    /\ upClosed' = TRUE
    /\ Flush
    /\ UNCHANGED <<markers, text, pos, nframes, naux, sentDone,
                   clientVars, requestVars, parseVars>>

Next ==
    \/ \E e \in 1..Len(text) : UpContent(e)
    \/ \E kind \in {"usage", "reasoning", "broken"} : UpAux(kind)
    \/ UpDone
    \/ \E n \in 1..MaxChunk : Read(n)
    \/ End
    \/ ReadFails

Spec == Init /\ [][Next]_vars

----------------------------------------------------------------------------
(* The same streaming request with the end of the upstream and the reaction
   of the read loop as separate steps, and the read loop always running on *)

\* the texts of the requests followed to their end: prose that ends in half
\* a start marker, and a start marker that no call follows
LiveTexts(m) ==
    { <<"a">> \o Take(m.TC_START, 2),
      <<"a", " ">> \o m.TC_START \o <<"a">> }

InitLive == Init /\ text \in LiveTexts(markers)

\* the upstream closes the body; what it has sent can still be read
UpCloses ==
    /\ ~upClosed /\ phase = "open"
    /\ upClosed' = TRUE
    /\ UNCHANGED <<markers, clock, text, pos, nframes, naux, sentDone, wire,
                   transformerVars, clientVars, requestVars, parseVars>>

\* the connection to the upstream fails; what was in flight is lost
UpBreaks ==
    /\ ~upClosed /\ phase = "open" /\ wire # <<>>
    /\ upClosed' = TRUE
    /\ wire' = <<>>
    /\ UNCHANGED <<markers, clock, text, pos, nframes, naux, sentDone,
                   transformerVars, clientVars, requestVars, parseVars>>

\* reader.read() reports the end of the body or rejects: the loop leaves
\* through break or through the catch clause, and both call transformer.end()
PumpEnd ==
    /\ upClosed /\ wire = <<>> /\ phase = "open"
    /\ Flush
    /\ UNCHANGED <<markers, text, pos, nframes, naux, sentDone, wire, upClosed,
                   clientVars, requestVars, parseVars>>

PumpRead == \E n \in 1..MaxChunk : Read(n)

NextLive ==
    \/ \E e \in 1..Len(text) : UpContent(e)
    \/ \E kind \in {"usage", "reasoning", "broken"} : UpAux(kind)
    \/ UpDone
    \/ UpCloses
    \/ UpBreaks
    \/ PumpRead
    \/ PumpEnd

\* the read loop is an async function that is resumed whenever reader.read()
\* settles
SpecLive == InitLive /\ [][NextLive]_vars /\ WF_vars(PumpRead) /\ WF_vars(PumpEnd)

----------------------------------------------------------------------------
(* The same streaming request with its client: the response socket takes what
   transformer.on('data') wrote with res.write, and may close at any time *)

\* the texts of the requests followed with their client
FlowTexts(m) ==
    { <<"a">> \o Take(m.TC_START, 2),
      <<"a", " ">> \o Take(m.TC_START, 1) \o GoodCall(m) }

InitFlow == Init /\ text \in FlowTexts(markers)

\* the client accepts the next event written to the response
ClientAccepts ==
    /\ ~clientGone
    /\ accepted < Len(out)
    /\ accepted' = accepted + 1
    /\ UNCHANGED <<markers, clock, streamVars, clientGone, requestVars, parseVars>>

\* the client disconnects; handleRequest registers no handler for it
ClientLeaves ==
    /\ ~clientGone
    /\ clientGone' = TRUE
    /\ UNCHANGED <<markers, clock, streamVars, accepted, requestVars, parseVars>>

NextFlow ==
    \/ Next
    \/ ClientAccepts
    \/ ClientLeaves

SpecFlow == InitFlow /\ [][NextFlow]_vars

----------------------------------------------------------------------------
(* Claims about the streaming transcoder (Spec) *)

\* the name and argument text of each call, in order
CallSigs(calls) ==
    [i \in 1..Len(calls) |-> <<calls[i].name, calls[i].arguments>>]

HasText(e) == e.kind = "json" /\ e.content # Null

\* the concatenation of the content text of all events sent to the client
Visible(o) ==
    Flatten([i \in 1..Len(o) |-> IF HasText(o[i]) THEN o[i].content ELSE <<>>])

\* the calls of all synthesized tool-call events sent to the client
CallsSent(o) ==
    Flatten([i \in 1..Len(o) |->
               IF o[i].why = "tool_calls" THEN CallSigs(o[i].tool_calls) ELSE <<>>])

Whys(o) == [i \in 1..Len(o) |-> o[i].why]

CountWhy(o, w) == Cardinality({i \in 1..Len(o) : o[i].why = w})

SentinelSent == \E i \in 1..Len(out) : out[i].kind = "done"

\* C1 (as claimed): no event sent to the client has a content text that
\* contains the start marker, and no event produced from the buffered tool
\* region (content patch, synthesized tool-call event) has a content text that
\* contains any marker-set token
C1_NoMarkerLeak ==
    \A i \in 1..Len(out) :
        HasText(out[i]) =>
            /\ ~Contains(out[i].content, markers.TC_START)
            /\ out[i].why \in {"patch", "tool_calls"} =>
                   ~ContainsToken(markers, out[i].content)

\* C2 (as claimed): nothing is sent after the sentinel, and the pending tail,
\* the content patch and the tool-call event are each sent at most once
C2_DoneTerminal ==
    /\ \A i \in 1..Len(out) : out[i].kind = "done" => i = Len(out)
    /\ CountWhy(out, "pending") <= 1
    /\ CountWhy(out, "patch") <= 1
    /\ CountWhy(out, "tool_calls") <= 1

\* a stream that delivered the whole text, then the sentinel, then closed,
\* without auxiliary frames
CompleteStream ==
    phase # "open" /\ pos = Len(text) /\ naux = 0 /\ SentinelSent

\* the transformer's output when the whole text arrives as one content frame
\* in one chunk, followed by the sentinel and the close
OneFrameOut(m, t, now) ==
    flushTail(m,
        processEvents(m, St(<<>>, FALSE, <<>>, NoEnvelope, <<>>, FALSE),
            pushText(<<>>, WireJson(Frame(TRUE, t, "role", "null")) \o WireDone).events,
            now),
        now).out

\* C3 (as claimed): for a text with one tool call, the calls and the visible
\* text of a complete stream do not depend on how the text is cut into frames
\* and chunks: they are those of the one-frame, one-chunk stream
C3_SplitRobust ==
    (CompleteStream /\ Len(parse(markers, text, 0).toolCalls) = 1) =>
        /\ CallsSent(out) = CallsSent(OneFrameOut(markers, text, 0))
        /\ Visible(out) = Visible(OneFrameOut(markers, text, 0))

\* every content frame so far carried one character
OneCharFrames == nframes - naux = pos

\* C4 (as claimed): a text streamed one character per frame gives the calls
\* and the residual content that the non-stream branch gives on the whole text
C4_StreamEquivalence ==
    (CompleteStream /\ OneCharFrames) =>
        LET whole == finishNonStream(markers,
                        [content |-> text, tool_calls |-> Null, finish_reason |-> "stop"],
                        TRUE, 0)
        IN /\ CallsSent(out) = (IF whole.tool_calls = Null THEN <<>>
                                ELSE CallSigs(whole.tool_calls))
           /\ Visible(out) = (IF whole.content = Null THEN <<>> ELSE whole.content)

\* what flush() is to send after a stream without sentinel: the pending tail,
\* the non-empty residual of the tool region, the calls of the tool region
FlushWhys(m, pt, tb) ==
    (IF pt # <<>> THEN <<"pending">> ELSE <<>>)
    \o (IF tb # <<>> /\ parse(m, tb, 0).cleanContent # <<>> THEN <<"patch">> ELSE <<>>)
    \o (IF tb # <<>> /\ parse(m, tb, 0).toolCalls # <<>> THEN <<"tool_calls">> ELSE <<>>)

LastN(o, n) == SubSeq(o, Len(o) - n + 1, Len(o))

\* C5 (as claimed): when the upstream closes without a sentinel the flush
\* completes and the output ends with the pending tail, the residual patch and
\* the tool-call event that the transformer state calls for, and holds no
\* sentinel
C5_AbnormalFlush ==
    (upClosed /\ ~sentDone) =>
        /\ phase = "ended"
        /\ ~SentinelSent
        /\ LET ws == FlushWhys(markers, pendingText, toolBuffer)
           IN /\ Len(out) >= Len(ws)
              /\ Whys(LastN(out, Len(ws))) = ws

----------------------------------------------------------------------------
(* Claims about the parser and the non-stream branch (SpecParse) *)

\* pieces that are whole: prose without marker characters, or one complete block
WholePieces == {"a", "sp", "good", "spaced", "bad"}

AllWhole(ids) == \A i \in 1..Len(ids) : ids[i] \in WholePieces

\* what the blocks of a text made of whole pieces say, block by block
RECURSIVE BlockSigs(_)
BlockSigs(ids) ==
    IF ids = <<>> THEN <<>>
    ELSE (CASE Head(ids) = "good"   -> << <<<<"n">>, <<"1">>>> >>
            [] Head(ids) = "spaced" -> << <<<<"k">>, <<"1">>>> >>
            [] OTHER                -> <<>>) \o BlockSigs(Tail(ids))

\* the prose of a text made of whole pieces
RECURSIVE Prose(_)
Prose(ids) ==
    IF ids = <<>> THEN <<>>
    ELSE (CASE Head(ids) = "a"  -> <<"a">>
            [] Head(ids) = "sp" -> <<" ">>
            [] OTHER            -> <<>>) \o Prose(Tail(ids))

\* C7 (as claimed): parse on the residual of a first parse finds no tool call
C7_ParseIdempotent ==
    pRes2 # NoResult => pRes2.toolCalls = <<>>

\* C8: in a text of prose and complete blocks, the block whose arguments are
\* not JSON is removed from the residual and reported as no call, and the
\* valid blocks around it are reported in left-to-right order
C8_InvalidJsonDropped ==
    (pRes # NoResult /\ AllWhole(pPieces)) =>
        /\ CallSigs(pRes.toolCalls) = BlockSigs(pPieces)
        /\ pRes.cleanContent = Trim(Prose(pPieces))

C8_Witness ==
    pRes # NoResult /\ pPieces = <<"good", "bad", "spaced">>

\* C9: for a text that contains no marker-set token, parse returns no tool
\* call and the input trimmed of surrounding whitespace as residual
C9_NoMarkerNoCalls ==
    (pRes # NoResult /\ ~ContainsToken(markers, pIn)) =>
        /\ pRes.toolCalls = <<>>
        /\ pRes.cleanContent = Trim(pIn)

C9_Witness ==
    pRes # NoResult /\ pPieces = <<"sp", "head", "sp">>

\* C10: the non-stream branch changes the body only when the request had
\* tools, the message has text and parse accepts a call: then the calls are
\* attached, the text becomes the residual (null when empty) and the finish
\* reason "tool_calls"; otherwise the body is returned unchanged
C10_NonStreamFinish ==
    reply # NoResult =>
        LET r == parse(markers, body.content, clock)
        IN IF hasTools /\ body.content # Null /\ body.content # <<>>
              /\ r.toolCalls # <<>>
           THEN /\ reply.tool_calls = r.toolCalls
                /\ reply.content = (IF r.cleanContent = <<>> THEN Null
                                    ELSE r.cleanContent)
                /\ reply.finish_reason = "tool_calls"
           ELSE reply = body

C10_Witness ==
    /\ reply # NoResult /\ hasTools
    /\ reply.finish_reason = "tool_calls" /\ reply.content = Null
    /\ Len(reply.tool_calls) = 2

----------------------------------------------------------------------------
(* Claims about the request transformer (SpecRequest) *)

ReqItems == request.messages.items
OutItems == outgoing.messages.items

\* a request with a non-empty tool list, no tool history and a final user
\* message has been handled
OneShotCase ==
    /\ outgoing # NoResult
    /\ request.messages.kind = "array"
    /\ IsArray(request.tools) /\ Len(request.tools.list) > 0
    /\ ~hasToolHistory(request)
    /\ ReqItems # <<>> /\ ReqItems[Len(ReqItems)].role = "user"

\* the text t occurs in the content of no message but the system messages
OnlyInSystemText(items, t) ==
    \A i \in 1..Len(items) :
        (items[i].role # "system" /\ items[i].content # Null) =>
            ~Contains(items[i].content, t)

\* C11 (as claimed): in the one-shot case the fabricated assistant message
\* and the fabricated user message are two messages of their own right before
\* the original final user message, which is the last message, and the
\* outgoing body has no tool list
C11_OneShotSeparate ==
    OneShotCase =>
        LET n == Len(OutItems) IN
        /\ ~outgoing.error /\ outgoing.tools = Absent
        /\ n >= 3
        /\ OutItems[n] = ReqItems[Len(ReqItems)]
        /\ OutItems[n - 1] = OutMsg("user", fakeToolResult(markers))
        /\ OutItems[n - 2] = OutMsg("assistant", fakeAssistantContent(markers))

\* C11 (amended): in the one-shot case the last message is a user message
\* whose text is the fabricated result, a blank line and the text of the
\* original final user message; the message before it is an assistant message
\* whose text ends with the fabricated call, and is that call alone unless the
\* original message before the final user message is an assistant message;
\* the outgoing body has no tool list and names the fictional tool in the
\* system text and the fabricated pair only
C11_OneShotMerged ==
    OneShotCase =>
        LET n == Len(OutItems)
            k == Len(ReqItems)
            fakeA == fakeAssistantContent(markers)
        IN
        /\ ~outgoing.error /\ outgoing.tools = Absent
        /\ n >= 3
        /\ OutItems[n].role = "user"
        /\ OutItems[n].content = fakeToolResult(markers) \o <<"nl", "nl">>
                                 \o OrEmpty(ReqItems[k].content)
        /\ OutItems[n - 1].role = "assistant"
        /\ IF k >= 2 /\ ReqItems[k - 1].role = "assistant"
           THEN EndsWith(OutItems[n - 1].content,
                         OrEmpty(ReqItems[k - 1].content) \o <<"nl", "nl">> \o fakeA)
           ELSE OutItems[n - 1].content = fakeA
        /\ OutItems[n - 2].role # "assistant"
        /\ \E i \in 1..(n - 2) :
               /\ OutItems[i].role = "system"
               /\ Contains(OutItems[i].content, SCIFI_TOOL_DEF.name)
        /\ OnlyInSystemText(SubSeq(OutItems, 1, n - 2), SCIFI_TOOL_DEF.name)

C11_Witness ==
    /\ OneShotCase
    /\ ReqItems = <<MsgOf("ua"), MsgOf("ac"), MsgOf("ub")>>
    /\ Len(OutItems) = 4

\* transformRequest has run on the request and returned
Transformed ==
    /\ outgoing # NoResult
    /\ ~outgoing.error
    /\ \/ IsArray(request.tools) /\ Len(request.tools.list) > 0
       \/ hasToolHistory(request)

\* the messages transformRequest hands to mergeAdjacentMessages
PreMerge ==
    outMessagesOf(markers, request,
                  IsArray(request.tools) /\ Len(request.tools.list) > 0)

\* the positions where a run of same-role messages starts, and the end of
\* the run that starts at s
RunStarts(ms) == {i \in 1..Len(ms) : i = 1 \/ ms[i].role # ms[i - 1].role}
RunEnd(ms, s) ==
    CHOOSE e \in s..Len(ms) :
        /\ \A j \in s..e : ms[j].role = ms[s].role
        /\ e = Len(ms) \/ ms[e + 1].role # ms[s].role
NthStart(ms, k) ==
    CHOOSE i \in RunStarts(ms) : Cardinality({j \in RunStarts(ms) : j <= i}) = k

CleanupCase ==
    /\ outgoing # NoResult
    /\ ~(IsArray(request.tools) /\ Len(request.tools.list) > 0)
    /\ hasToolHistory(request)

\* C13 (as claimed): in the cleanup case no message of the outgoing request
\* has a tool_calls field or the tool role, and no message text holds a
\* marker-set token
C13_HistoryCleaned ==
    CleanupCase =>
        /\ ~outgoing.error
        /\ \A i \in 1..Len(OutItems) :
              /\ ~IsArray(OutItems[i].tool_calls)
              /\ OutItems[i].role # "tool"
              /\ OutItems[i].content # Null =>
                     ~ContainsToken(markers, OutItems[i].content)

----------------------------------------------------------------------------
(* Claims about the pipeline between the upstream and the client (SpecFlow) *)

\* C14 (as claimed): a chunk is read from the upstream and transcoded only
\* when the client has accepted everything written before
C14_Backpressure ==
    [][Len(wire') < Len(wire) => accepted = Len(out)]_vars

\* C15 (as claimed): once the client has disconnected no chunk is read from
\* the upstream, and nothing is flushed, parsed or written
C15_Cancellation ==
    [][clientGone => (Len(wire') >= Len(wire) /\ out' = out /\ phase' = phase)]_vars

----------------------------------------------------------------------------
(* Claims about the end of the upstream (SpecLive) *)

\* C16: whenever the upstream has ended or failed without having sent the
\* sentinel, eventually flush() has run and the response has been ended
C16_FlushOnFailure ==
    (upClosed /\ ~sentDone) ~> (resEnded /\ phase # "open")

C16_Witness ==
    /\ upClosed /\ ~sentDone /\ resEnded /\ phase = "ended"
    /\ pendingText # <<>>
    /\ out # <<>> /\ out[Len(out)].why = "pending"

----------------------------------------------------------------------------
(* Raw passthrough *)

\* a step of the read loop that gave a chunk to transform()
ReadStep == phase = "open" /\ Len(wire') < Len(wire) /\ upClosed' = upClosed

\* a frame that is not the sentinel and whose data lines JSON.parse rejects
Undecodable(rawEvent) ==
    ~isDoneEvent(rawEvent) /\ parseJsonFromEvent(rawEvent).t = "raw"

\* the transformer after the for loop of transform() has handled evs
StateAfter(evs, now) ==
    processEvents(markers,
                  St(pendingText, bufferingTool, toolBuffer, lastEnvelope, out, FALSE),
                  evs, now)

SameTranscoder(a, b) ==
    /\ a.pendingText = b.pendingText
    /\ a.bufferingTool = b.bufferingTool
    /\ a.toolBuffer = b.toolBuffer
    /\ a.lastEnvelope = b.lastEnvelope

\* C17: in every chunk given to transform(), a frame that cannot be decoded as
\* JSON and that the for loop reaches (Scanning or Buffering) adds exactly one
\* event to the output, the raw frame itself, at the place in the output that
\* follows what the frames before it produced; the pending tail, the
\* buffering flag, the tool buffer and the last envelope are what they were
\* before the frame; the transformer has not failed, and every later frame of
\* the chunk still produces its output
C17_FailOpen ==
    [][ReadStep =>
        \E now \in clock..MaxClock :
        \E evs \in {lastEvents'} :
        \E final \in {StateAfter(evs, now)} :
           /\ out' = final.out
           /\ pendingText' = final.pendingText
           /\ bufferingTool' = final.bufferingTool
           /\ toolBuffer' = final.toolBuffer
           /\ lastEnvelope' = final.lastEnvelope
           /\ \A k \in 1..Len(evs) :
                \E pre \in {StateAfter(Take(evs, k - 1), now)} :
                \E post \in {StateAfter(Take(evs, k), now)} :
                   (Undecodable(evs[k]) /\ ~pre.failed) =>
                      /\ Len(post.out) = Len(pre.out) + 1
                      /\ Take(post.out, Len(pre.out)) = pre.out
                      /\ post.out[Len(post.out)].kind = "raw"
                      /\ post.out[Len(post.out)].raw = evs[k]
                      /\ SameTranscoder(pre, post)
                      /\ ~post.failed
                      /\ Take(out', Len(post.out)) = post.out
                      /\ ~final.failed => Len(out') >= Len(post.out) + Len(evs) - k
       ]_vars

\* Buffering: a frame that cannot be decoded was forwarded raw, and the
\* content frame that came after it has been handled; its text, which does
\* not complete a start marker, went to the tool buffer
C17_Witness ==
    /\ phase = "open" /\ bufferingTool
    /\ Len(lastEvents) = 1
    /\ parseJsonFromEvent(lastEvents[1]).t = "json"
    /\ Len(out) >= 3
    /\ out[Len(out) - 1].kind = "raw" /\ Undecodable(out[Len(out) - 1].raw)
    /\ out[Len(out)].why = "fwd" /\ out[Len(out)].content = Null
    /\ \E c \in {parseJsonFromEvent(lastEvents[1]).f.content} :
          /\ c # Null /\ c # <<>>
          /\ ~Contains(c, <<markers.TC_START[Len(markers.TC_START)]>>)
          /\ EndsWith(toolBuffer, c)

----------------------------------------------------------------------------
(* Claim about the marker set (SpecMarkers) *)

TokenNames ==
    {"TC_START", "TC_END", "NAME_START", "NAME_END",
     "ARGS_START", "ARGS_END", "RESULT_START", "RESULT_END"}

\* C18: whatever delimiter set and suffixes the constructor picked, no two of
\* the 8 tokens are equal and none occurs inside another
C18_TokensDistinct ==
    markers # NoMarkers =>
        \A a \in TokenNames : \A b \in TokenNames \ {a} :
            /\ markers[a] # markers[b]
            /\ ~Contains(markers[a], markers[b])

\* the constructor picked the delimiter set whose open and close characters
\* differ, and the same suffix twice
C18_Witness ==
    /\ markers = generateMarkers(2, 3, 3)
    /\ markers.TC_START[2] = markers.RESULT_START[2]
    /\ markers.TC_START[1] # markers.TC_END[3]

----------------------------------------------------------------------------
(* Claims about a request without a message array, and about the
   synthesized tool-call event *)

\* transformRequest has run on a request whose messages field is absent or
\* is no array (it runs only when the request has tools, since such a
\* request has no tool history)
NonArrayCase ==
    /\ outgoing # NoResult
    /\ request.messages.kind # "array"
    /\ IsArray(request.tools) /\ Len(request.tools.list) > 0

\* C19 (as claimed): on such a request no error is raised and the outgoing
\* messages are those of the same request with an empty message array
C19_NonArrayAsEmpty ==
    NonArrayCase =>
        /\ ~outgoing.error
        /\ outgoing.messages =
             transformRequest(markers,
                              [request EXCEPT !.messages = Messages("array", <<>>)],
                              TRUE).messages

\* C20 (as claimed): every synthesized tool-call event numbers its calls
\* 0..n-1 in order, has a null finish reason and a primary choice, and its
\* delta has no content text
C20_SynthesizedEvent ==
    \A i \in 1..Len(out) :
        out[i].why = "tool_calls" =>
            /\ out[i].choices
            /\ out[i].tool_calls # <<>>
            /\ \A k \in 1..Len(out[i].tool_calls) : out[i].tool_calls[k].index = k - 1
            /\ out[i].finish = "null"
            /\ out[i].content = Null

----------------------------------------------------------------------------
(* Claim about the identifiers of the calls (SpecParse) *)

\* the identifiers of the calls of one parse result
IdsOf(r) == {r.toolCalls[i].id : i \in 1..Len(r.toolCalls)}

\* C21 (as claimed): the calls of one parse have different identifiers, the
\* ordinal in the identifier of the k-th accepted call is k - 1, and no call
\* of a second invocation of parse has the identifier of a call of the first
C21_UniqueIds ==
    /\ pRes # NoResult =>
          /\ Cardinality(IdsOf(pRes)) = Len(pRes.toolCalls)
          /\ \A k \in 1..Len(pRes.toolCalls) : pRes.toolCalls[k].id[2] = k - 1
    /\ (pRes # NoResult /\ pRes2 # NoResult) =>
          IdsOf(pRes) \cap IdsOf(pRes2) = {}

----------------------------------------------------------------------------
(* Claim about the held pending tail (Spec) *)

\* t is the start marker without at least its last character
StrictPrefix(t, marker) == Len(t) < Len(marker) /\ t = Take(marker, Len(t))

\* the lengths of the suffixes of t that are strict prefixes of the marker
HeldLens(t, marker) ==
    {i \in 0..(Len(marker) - 1) : i <= Len(t) /\ LastN(t, i) = Take(marker, i)}

\* a content frame handled in Scanning whose text, after the pending tail,
\* holds no start marker
ScansNoHit(pre, rawEvent) ==
    /\ ~pre.failed /\ ~pre.bufferingTool
    /\ ~isDoneEvent(rawEvent)
    /\ parseJsonFromEvent(rawEvent).t = "json"
    /\ \E f \in {parseJsonFromEvent(rawEvent).f} :
          /\ f.choices /\ Truthy(f.content)
          /\ ~Contains(pre.pendingText \o f.content, markers.TC_START)

\* C22: the pending tail is a strict prefix of the start marker at the start
\* and after every step; and for every frame handled in Scanning without a
\* marker hit, the new pending tail is the longest suffix of pending tail +
\* text that is a strict prefix of the start marker, and the frame is
\* forwarded once, with all before that suffix as its content (with no
\* content when that is empty) and its other fields as they came
C22_SuffixHoldback ==
    /\ StrictPrefix(pendingText, markers.TC_START)
    /\ [][/\ StrictPrefix(pendingText', markers.TC_START)
          /\ ReadStep =>
               \E now \in clock..MaxClock :
               \E evs \in {lastEvents'} :
                  /\ pendingText' = StateAfter(evs, now).pendingText
                  /\ out' = StateAfter(evs, now).out
                  /\ \A k \in 1..Len(evs) :
                       \E pre \in {StateAfter(Take(evs, k - 1), now)} :
                       \E post \in {StateAfter(Take(evs, k), now)} :
                          ScansNoHit(pre, evs[k]) =>
                            \E f \in {parseJsonFromEvent(evs[k]).f} :
                            \E combined \in {pre.pendingText \o f.content} :
                            \E held \in {CHOOSE i \in HeldLens(combined, markers.TC_START) :
                                           \A j \in HeldLens(combined, markers.TC_START) : j <= i} :
                               /\ post.pendingText = LastN(combined, held)
                               /\ Len(post.pendingText) <= Len(markers.TC_START) - 1
                               /\ ~post.bufferingTool /\ post.toolBuffer = pre.toolBuffer
                               /\ Len(post.out) = Len(pre.out) + 1
                               /\ Take(post.out, Len(pre.out)) = pre.out
                               /\ \E e \in {post.out[Len(post.out)]} :
                                     /\ e.kind = "json" /\ e.extra = f.extra
                                     /\ e.finish = f.finish
                                     /\ e.content =
                                          IF held = Len(combined) THEN Null
                                          ELSE Take(combined, Len(combined) - held)
      ]_vars

\* Scanning: one frame brought a letter and all of the start marker but its
\* last character; the letter was forwarded and the rest is held
C22_Witness ==
    /\ phase = "open" /\ ~bufferingTool
    /\ pendingText = Take(markers.TC_START, Len(markers.TC_START) - 1)
    /\ Len(lastEvents) = 1
    /\ parseJsonFromEvent(lastEvents[1]).t = "json"
    /\ parseJsonFromEvent(lastEvents[1]).f.content = <<"a">> \o pendingText
    /\ out # <<>> /\ out[Len(out)].why = "fwd" /\ out[Len(out)].content = <<"a">>

----------------------------------------------------------------------------
(* Claim about when the one-shot demonstration is injected (SpecRequest) *)

\* the request has a non-empty tool list, none of its messages is a tool
\* result or an assistant message with tool calls, and its last message has
\* the user role
InjectCondition ==
    /\ IsArray(request.tools) /\ Len(request.tools.list) > 0
    /\ request.messages.kind = "array"
    /\ \A i \in 1..Len(ReqItems) :
          /\ ReqItems[i].role # "tool"
          /\ ~(/\ ReqItems[i].role = "assistant"
               /\ IsArray(ReqItems[i].tool_calls)
               /\ Len(ReqItems[i].tool_calls.list) > 0)
    /\ ReqItems # <<>> /\ ReqItems[Len(ReqItems)].role = "user"

\* the messages of the outgoing body that have a role and a text
OutWithText ==
    IF outgoing.messages.kind = "array"
    THEN {i \in 1..Len(OutItems) : OutItems[i].content # Null}
    ELSE {}

\* the fictional tool is in the list of tools of a system message
FictionalToolListed ==
    \E i \in OutWithText :
        /\ OutItems[i].role = "system"
        /\ Contains(OutItems[i].content, <<"- ">> \o SCIFI_TOOL_DEF.name)

\* the fabricated call is in an assistant message and the fabricated result
\* in the user message right after it
FabricatedTurnsPresent ==
    \E i \in OutWithText : \E j \in OutWithText :
        /\ j = i + 1
        /\ OutItems[i].role = "assistant"
        /\ Contains(OutItems[i].content, fakeAssistantContent(markers))
        /\ OutItems[j].role = "user"
        /\ Contains(OutItems[j].content, fakeToolResult(markers))

\* the name of the fictional tool is in some message text
FictionalToolNamed ==
    \E i \in OutWithText : Contains(OutItems[i].content, SCIFI_TOOL_DEF.name)

\* C23: once the request has been handled, the fictional tool is listed in
\* the system text and the fabricated turns are in the conversation exactly
\* when the request has tools, no tool history and a final user message; in
\* every other case no message of the outgoing body names the fictional tool
C23_OneShotIff ==
    outgoing # NoResult =>
        /\ InjectCondition <=> FictionalToolListed
        /\ InjectCondition <=> FabricatedTurnsPresent
        /\ ~InjectCondition => ~FictionalToolNamed

\* the one-shot was injected into a conversation that has its own system
\* message and an assistant message with an empty tool_calls array
C23_Witness ==
    /\ outgoing # NoResult /\ InjectCondition
    /\ ReqItems = <<MsgOf("sys"), MsgOf("ae"), MsgOf("ua")>>
    /\ FictionalToolListed /\ FabricatedTurnsPresent

----------------------------------------------------------------------------
(* Claim about the Buffering state (Spec) *)

\* a content frame handled in Buffering
BuffersText(pre, rawEvent) ==
    /\ ~pre.failed /\ pre.bufferingTool
    /\ ~isDoneEvent(rawEvent)
    /\ parseJsonFromEvent(rawEvent).t = "json"
    /\ parseJsonFromEvent(rawEvent).f.choices
    /\ Truthy(parseJsonFromEvent(rawEvent).f.content)

\* C24: once Buffering, always Buffering: in every step from a Buffering
\* state the flag stays set, the pending tail is and stays empty, and the
\* tool buffer, which starts with the start marker, only grows at its end;
\* and every content frame handled in Buffering has its text appended to the
\* tool buffer and is forwarded once, without content and with its other
\* fields as they came
C24_BufferingAbsorbing ==
    [][/\ bufferingTool =>
            /\ bufferingTool'
            /\ pendingText = <<>> /\ pendingText' = <<>>
            /\ Take(toolBuffer, Len(markers.TC_START)) = markers.TC_START
            /\ Take(toolBuffer', Len(toolBuffer)) = toolBuffer
       /\ ReadStep =>
            \E now \in clock..MaxClock :
            \E evs \in {lastEvents'} :
               /\ toolBuffer' = StateAfter(evs, now).toolBuffer
               /\ bufferingTool' = StateAfter(evs, now).bufferingTool
               /\ out' = StateAfter(evs, now).out
               /\ \A k \in 1..Len(evs) :
                    \E pre \in {StateAfter(Take(evs, k - 1), now)} :
                    \E post \in {StateAfter(Take(evs, k), now)} :
                       BuffersText(pre, evs[k]) =>
                         \E f \in {parseJsonFromEvent(evs[k]).f} :
                            /\ post.toolBuffer = pre.toolBuffer \o f.content
                            /\ post.bufferingTool /\ post.pendingText = <<>>
                            /\ Len(post.out) = Len(pre.out) + 1
                            /\ Take(post.out, Len(pre.out)) = pre.out
                            /\ \E e \in {post.out[Len(post.out)]} :
                                  /\ e.kind = "json" /\ e.content = Null
                                  /\ e.choices = f.choices
                                  /\ e.extra = f.extra /\ e.finish = f.finish
                                  /\ e.tool_calls = Null
      ]_vars

\* Buffering since an earlier frame: the frame just handled brought the rest
\* of a call, closing marker included, and nothing of it was forwarded
C24_Witness ==
    /\ phase = "open" /\ bufferingTool
    /\ Len(lastEvents) = 1
    /\ parseJsonFromEvent(lastEvents[1]).t = "json"
    /\ \E c \in {parseJsonFromEvent(lastEvents[1]).f.content} :
          /\ c # Null
          /\ Contains(c, markers.TC_END)
          /\ ~Contains(c, <<markers.TC_START[Len(markers.TC_START)]>>)
          /\ toolBuffer = markers.TC_START \o c
    /\ Len(out) >= 2
    /\ out[Len(out)].why = "fwd" /\ out[Len(out)].content = Null

----------------------------------------------------------------------------
(* Claims about the whole stream: conservation of text, and failure (Spec) *)

\* the stream is over and every frame the upstream sent was handled by
\* transform(), each giving one forwarded event
AllFramesHandled ==
    /\ phase # "open" /\ pos = Len(text) /\ wire = <<>>
    /\ CountWhy(out, "fwd") + CountWhy(out, "raw") = nframes

\* C25 (as claimed): when the text of the stream holds no start marker, the
\* content texts of all events sent to the client, in order, make up the
\* text the upstream sent
C25_TextConserved ==
    (AllFramesHandled /\ ~Contains(text, markers.TC_START)) =>
        Visible(out) = text

\* C26 (as claimed): transform() and flush() never throw, whatever frame is
\* the last envelope when the pending tail, the content patch or the
\* tool-call event is emitted
C26_SynthesisNeverFails == phase # "failed"

----------------------------------------------------------------------------
(* Claim about encoding and parsing back (SpecRoundTrip) *)

\* the assistant message of the request, and its calls
RtMsg == request.messages.items[1]
RtList == RtMsg.tool_calls.list

\* the message has been encoded and the text parsed
RoundTripDone == request # NoResult /\ outgoing # NoResult /\ pRes # NoResult

\* names free of marker tokens and of surrounding whitespace, arguments that
\* JSON.parse accepts
NamesAndArgsAsClaimed ==
    \A i \in 1..Len(RtList) :
        /\ ~ContainsToken(markers, RtList[i].name)
        /\ Trim(RtList[i].name) = RtList[i].name
        /\ JsonValid(Trim(RtList[i].arguments))

\* the calls and the residual are those of the message
ParsesBack ==
    /\ CallSigs(pRes.toolCalls) = CallSigs(RtList)
    /\ pRes.cleanContent = Trim(OrEmpty(RtMsg.content))

\* C27 (as claimed): the encoded text of an assistant message whose call
\* names have no marker token and no surrounding whitespace and whose
\* arguments are valid JSON parses back to the same names and argument texts
\* in the same order, with the trimmed message text as the residual
C27_RoundTrip ==
    (RoundTripDone /\ NamesAndArgsAsClaimed) => ParsesBack

\* C27 (amended): the same, for arguments that have no surrounding whitespace
\* and no marker token either, and a message text without marker tokens
C27_RoundTripTrimmed ==
    (/\ RoundTripDone /\ NamesAndArgsAsClaimed
     /\ \A i \in 1..Len(RtList) :
           /\ Trim(RtList[i].arguments) = RtList[i].arguments
           /\ ~ContainsToken(markers, RtList[i].arguments)
     /\ ~ContainsToken(markers, OrEmpty(RtMsg.content)))
    => ParsesBack

\* two different calls, one with a space inside its name, after a text with
\* spaces around, have been encoded and parsed back
C27_Witness ==
    /\ RoundTripDone
    /\ RtMsg.content = <<" ", "c", " ">>
    /\ RtList = <<CallWith(<<"k", " ", "k">>, <<"1", "1">>), CallWith(<<"n">>, <<"1">>)>>
    /\ Len(pRes.toolCalls) = 2
    /\ pRes.cleanContent = <<"c">>

====
